---- MODULE Spec2Model ----
(***************************************************************************)
(* Model of the persistence/business layer of the fitness tracker:         *)
(* Database (users, workouts, streak, reports, flat-file store) and the    *)
(* GUI handlers that mutate Database.data directly (login, logout,         *)
(* delete_account, join_challenge, save_challenge), the list of            *)
(* NotificationManager, and the start of the process from the files.       *)
(* Source: src/main.py; src/group8system.py is the same program with more  *)
(* comments.                                                               *)
(*                                                                         *)
(* Time.  datetime.now() is the variable `now`, counted in ticks;          *)
(* TicksPerDay ticks make one calendar day.  An ISO timestamp string       *)
(* "YYYY-MM-DDTHH:MM:SS" is the pair <<day, tick of day>>.                 *)
(*                                                                         *)
(* Files.  At most one of the four pickle files is faulty at a time: it    *)
(* cannot be opened, or a dump into it fails after the file was truncated. *)
(***************************************************************************)
EXTENDS Integers, Sequences, FiniteSets, TLC

VARIABLES
    now,          \* the wall clock read by datetime.now(), in ticks
    users,        \* Database.data['users']: username -> user record
    workouts,     \* Database.data['workouts']: list of workout records
    nutrition,    \* Database.data['nutrition']: list, never written by the core
    challenges,   \* Database.data['challenges']: list of challenge records
    disk,         \* the four pickle files under fitness_data/
    current_user, \* FitnessTrackerGroup8.current_user
    last,         \* the last call made, its arguments and what it returned
    history,      \* per username: the password of its latest registration and
                  \* the calendar days and the calories of the add_workout
                  \* calls that returned since then (read by the properties,
                  \* never by the program)
    notifications, \* NotificationManager.notifications
    broken        \* the environment: which pickle file cannot be opened or
                  \* written at present, if any

vars == <<now, users, workouts, nutrition, challenges, disk, current_user, last,
          history, notifications, broken>>

----------------------------------------------------------------------------
(* Bounds of the model *)

MaxNow == 2          \* Spec: the clock stops advancing at this tick
MaxWorkouts == 2     \* Spec: add_workout is not called on a longer log
MaxLogNow == 2       \* SpecLog: the same two bounds
MaxLog == 2
MaxStreakNow == 5    \* SpecStreak
MaxStreakLog == 3
MaxQueryNow == 4     \* SpecQuery
MaxQueryLog == 2
MaxWindow == 2       \* SpecQuery: largest `days` argument of get_user_workouts
MaxReportNow == 74   \* SpecReport
MaxReportLog == 2
\* The store under faults: workouts and memberships of the one user
MaxStoreLog == 1
MaxStoreJoins == 1
\* Challenges: memberships of one user; created challenges; workouts in the
\* log when accounts are deleted
MaxJoins == 2
MaxCreated == 2
MaxCreateJoins == 1
MaxDeleteLog == 2
MaxDeleteJoins == 1
\* Every operation together: workouts in the log, memberships, created
\* challenges
MaxCoreLog == 2
MaxCoreJoins == 1
MaxCoreCreated == 1
\* The notification centre: the clock and the notifications of one process
MaxNotifyNow == 1
MaxNotes == 2
\* The statistics of a workout: the clock and the length of the log
MaxStatsNow == 2
MaxStatsLog == 2

----------------------------------------------------------------------------
(* Values *)

TicksPerDay == 2

\* Python's None, for the nullable timestamps
None == <<>>

\* self.current_user = None
NoUser == "None"

Usernames == {"alice", "bob"}
Passwords == {"pw1", "pw2"}

\* (password, user_data) pairs typed into the register form
Registrations ==
    { [password |-> "pw1",
       profile |-> [age |-> "30", weight |-> "70", height |-> "175", gender |-> "F"]],
      [password |-> "pw2",
       profile |-> [age |-> "41", weight |-> "82", height |-> "180", gender |-> "M"]] }
FirstRegistration == CHOOSE r \in Registrations : r.password = "pw1"

\* hashlib.sha256(password.encode()).hexdigest()
sha256_hexdigest(p) ==
    CASE p = "pw1" -> "c592df4a86933b92addc9842402ddf198c638ea9be58916ee6e3734e1e3152f8"
      [] p = "pw2" -> "93915a0a4bf8f634cb1856494dd4304472ad46b9827f541f76b6761c49cc55b0"

\* datetime.isoformat(): date part and time-of-day part
isoformat(t) == <<t \div TicksPerDay, t % TicksPerDay>>

\* datetime.fromisoformat(s)
fromisoformat(s) == s[1] * TicksPerDay + s[2]

\* datetime.date(): the calendar day of a datetime
date(t) == t \div TicksPerDay

\* timedelta(days=days), in ticks
timedelta(days) == days * TicksPerDay

\* dict.get(key, default)
Get(d, key, default) == IF key \in DOMAIN d THEN d[key] ELSE default

\* {**base, **over}: the keys of `over` replace those of `base`
Merge(base, over) == over @@ base

\* workout_data dictionaries handed to add_workout.  The log dialog builds
\* the first two shapes; the others are maps a caller of the Database API
\* can pass (no 'calories', no 'type', a 'date', an 'id', a 'username').
RunningInput == [type |-> "Running", duration |-> 30, calories |-> 300]
YogaInput == [type |-> "Yoga", duration |-> 20]
DatedInput == [calories |-> 100, date |-> isoformat(0)]
ForeignInput == [id |-> 1, username |-> "bob"]
BareInput == [notes |-> "rest day"]
WorkoutInputs == {RunningInput, YogaInput, DatedInput, ForeignInput}

----------------------------------------------------------------------------
(* Persistence gateway *)

\* Database.get_default_challenges
get_default_challenges ==
    << [id |-> 1, name |-> "10K Steps Challenge",
        description |-> "Walk 10,000 steps daily for 30 days",
        goal |-> 10000, metric |-> "steps", duration |-> 30,
        reward |-> "Gold Badge", participants |-> <<>>],
       [id |-> 2, name |-> "Hydration Hero",
        description |-> "Drink 8 glasses of water daily",
        goal |-> 8, metric |-> "water", duration |-> 30,
        reward |-> "Silver Badge", participants |-> <<>>],
       [id |-> 3, name |-> "Workout Warrior",
        description |-> "Complete 20 workouts in 30 days",
        goal |-> 20, metric |-> "workouts", duration |-> 30,
        reward |-> "Platinum Badge", participants |-> <<>>] >>

\* A pickle file: absent, or holding the object dumped into it
NoFile == [exists |-> FALSE]
File(obj) == [exists |-> TRUE, content |-> obj]

\* The store before the first run: fitness_data/ holds no file
EmptyStore == [users |-> NoFile, workouts |-> NoFile,
               nutrition |-> NoFile, challenges |-> NoFile]

\* The files in the order save_data writes them
FileOrder == <<"users", "workouts", "nutrition", "challenges">>
FileNames == {FileOrder[i] : i \in 1 .. Len(FileOrder)}
FileIndex(f) == CHOOSE i \in 1 .. Len(FileOrder) : FileOrder[i] = f

\* What can be wrong with one file: open() raises (in 'rb' and in 'wb' mode,
\* the file is left as it is), or open(.., 'wb') truncates the file and
\* pickle.dump raises before the object is written out
NoFault == [file |-> "none", how |-> "none"]
Faults == [file : FileNames, how : {"open", "write"}]

\* A file that open(.., 'wb') truncated and pickle.dump did not fill
Truncated == [exists |-> TRUE, truncated |-> TRUE]

\* The index of the write that raises in save_data, 0 when none does
FailingWrite == IF broken = NoFault THEN 0 ELSE FileIndex(broken.file)

\* save_data with the nutrition record dumped into the workouts file
save_data_wrong_file(u, w, n, c) ==
    LET obj == [users |-> u, workouts |-> n, nutrition |-> n, challenges |-> c]
        k == FailingWrite
    IN [f \in FileNames |->
           IF k = 0 \/ FileIndex(f) < k THEN File(obj[f])
           ELSE IF FileIndex(f) = k /\ broken.how = "write" THEN Truncated
           ELSE disk[f]]

\* save_data with each dump in a try block of its own
save_data_keep_going(u, w, n, c) ==
    LET obj == [users |-> u, workouts |-> w, nutrition |-> n, challenges |-> c]
        k == FailingWrite
    IN [f \in FileNames |->
           IF FileIndex(f) # k THEN File(obj[f])
           ELSE IF broken.how = "write" THEN Truncated
           ELSE disk[f]]

\* Database.save_data: the four dumps in order, up to the one that raises;
\* the value is the content of fitness_data/ afterwards
save_data(u, w, n, c) ==
    LET obj == [users |-> u, workouts |-> w, nutrition |-> n, challenges |-> c]
        k == FailingWrite
    IN [f \in FileNames |->
           IF k = 0 \/ FileIndex(f) < k THEN File(obj[f])
           ELSE IF FileIndex(f) = k /\ broken.how = "write" THEN Truncated
           ELSE disk[f]]

\* What Database.save_data returns: True after the fourth dump, False from
\* the except clause
save_data_returns == FailingWrite = 0

\* pickle.load of file f succeeds
Loads(f) ==
    /\ disk[f].exists
    /\ "content" \in DOMAIN disk[f]
    /\ ~(broken.file = f /\ broken.how = "open")

\* One of the four blocks of Database.load_all_data: the unpickled object,
\* or the value of the except (or else) clause
LoadFile(f, default) == IF Loads(f) THEN disk[f].content ELSE default

\* The files that exist and raise in load_all_data
Unreadable == {f \in FileNames : disk[f].exists /\ ~Loads(f)}

----------------------------------------------------------------------------
(* Initial state: Database.__init__ on an empty fitness_data/ directory *)

Init ==
    /\ now = 0
    /\ users = << >>
    /\ workouts = << >>
    /\ nutrition = << >>
    /\ challenges = get_default_challenges
    /\ disk = EmptyStore
    /\ current_user = NoUser
    /\ last = [op |-> "init"]
    /\ history = [u \in Usernames |-> [password |-> "", days |-> << >>, calories |-> 0]]
    /\ notifications = << >>
    /\ broken = NoFault

----------------------------------------------------------------------------
(* The clock *)

\* Time passes between two calls
Tick(d) ==
    /\ now' = now + d
    /\ last' = [op |-> "tick"]
    /\ UNCHANGED <<users, workouts, nutrition, challenges, disk, current_user,
                   history, notifications, broken>>

----------------------------------------------------------------------------
(* User repository *)

\* The user record built by Database.add_user
NewUser(password, user_data, t) ==
    [password |-> sha256_hexdigest(password),
     created_at |-> isoformat(t),
     last_login |-> None,
     profile |-> user_data,
     settings |-> [notifications |-> TRUE, dark_mode |-> TRUE,
                   units |-> "metric", weekly_goal |-> 5],
     stats |-> [total_workouts |-> 0, total_calories |-> 0, total_steps |-> 0,
                streak_days |-> 0, last_workout |-> None],
     achievements |-> <<>>,
     challenges |-> <<>>]

\* dict item assignment d[k] = v
Put(d, k, v) == [x \in DOMAIN d \cup {k} |-> IF x = k THEN v ELSE d[x]]

\* del d[k]
Del(d, k) == [x \in DOMAIN d \ {k} |-> d[x]]

\* add_user without the `username in self.data['users']` test
add_user_overwrite(username, password, user_data) ==
    LET users1 == Put(users, username, NewUser(password, user_data, now))
    IN /\ users' = users1
       /\ disk' = save_data(users1, workouts, nutrition, challenges)
       /\ last' = [op |-> "add_user", user |-> username, ret |-> TRUE,
                        saved |-> save_data_returns]
       /\ history' = [history EXCEPT ![username] =
                                    [password |-> password, days |-> << >>,
                                          calories |-> 0]]
       /\ UNCHANGED <<broken, notifications, now, workouts, nutrition,
                           challenges, current_user>>

\* Database.add_user
add_user(username, password, user_data) ==
    IF username \in DOMAIN users
    THEN /\ last' = [op |-> "add_user", user |-> username, ret |-> FALSE]
         /\ UNCHANGED <<broken, notifications, now, users, workouts, nutrition,
                        challenges, disk,
                        current_user, history>>
    ELSE LET users1 == Put(users, username, NewUser(password, user_data, now))
         IN /\ users' = users1
            /\ disk' = save_data(users1, workouts, nutrition, challenges)
            /\ last' = [op |-> "add_user", user |-> username, ret |-> TRUE,
                        saved |-> save_data_returns]
            /\ history' = [history EXCEPT ![username] =
                                         [password |-> password, days |-> << >>,
                                          calories |-> 0]]
            /\ UNCHANGED <<broken, notifications, now, workouts, nutrition,
                           challenges, current_user>>

\* verify_user that stamps last_login before it compares the hashes
verify_user_stamp_first(username, password) ==
    IF username \notin DOMAIN users
    THEN /\ last' = [op |-> "verify_user", user |-> username,
                     password |-> password, ret |-> FALSE]
         /\ UNCHANGED <<broken, notifications, now, users, workouts, nutrition,
                        challenges, disk,
                        current_user, history>>
    ELSE LET users1 == [users EXCEPT ![username].last_login = isoformat(now)]
             ok == users[username].password = sha256_hexdigest(password)
         IN /\ users' = users1
            /\ disk' = IF ok THEN save_data(users1, workouts, nutrition, challenges)
                             ELSE disk
            /\ current_user' = IF ok THEN username ELSE current_user
            /\ last' = [op |-> "verify_user", user |-> username,
                        password |-> password, ret |-> ok,
                        saved |-> ok /\ save_data_returns]
            /\ UNCHANGED <<broken, notifications, now, workouts, nutrition,
                           challenges, history>>

\* verify_user that compares the stored hash with itself
verify_user_no_compare(username, password) ==
    IF username \notin DOMAIN users
    THEN /\ last' = [op |-> "verify_user", user |-> username,
                     password |-> password, ret |-> FALSE]
         /\ UNCHANGED <<broken, notifications, now, users, workouts, nutrition,
                        challenges, disk,
                        current_user, history>>
    ELSE LET users1 == [users EXCEPT ![username].last_login = isoformat(now)]
         IN /\ users' = users1
            /\ disk' = save_data(users1, workouts, nutrition, challenges)
            /\ current_user' = username
            /\ last' = [op |-> "verify_user", user |-> username,
                        password |-> password, ret |-> TRUE,
                        saved |-> save_data_returns]
            /\ UNCHANGED <<broken, notifications, now, workouts, nutrition,
                           challenges, history>>

\* Database.verify_user, called by the login handler, which sets
\* current_user when it returns True
verify_user(username, password) ==
    IF username \notin DOMAIN users
    THEN /\ last' = [op |-> "verify_user", user |-> username,
                     password |-> password, ret |-> FALSE]
         /\ UNCHANGED <<broken, notifications, now, users, workouts, nutrition,
                        challenges, disk,
                        current_user, history>>
    ELSE IF users[username].password = sha256_hexdigest(password)
    THEN LET users1 == [users EXCEPT ![username].last_login = isoformat(now)]
         IN /\ users' = users1
            /\ disk' = save_data(users1, workouts, nutrition, challenges)
            /\ current_user' = username
            /\ last' = [op |-> "verify_user", user |-> username,
                        password |-> password, ret |-> TRUE,
                        saved |-> save_data_returns]
            /\ UNCHANGED <<broken, notifications, now, workouts, nutrition,
                           challenges, history>>
    ELSE /\ last' = [op |-> "verify_user", user |-> username,
                     password |-> password, ret |-> FALSE]
         /\ UNCHANGED <<broken, notifications, now, users, workouts, nutrition,
                        challenges, disk,
                        current_user, history>>

\* the logout handler of the profile dialog
logout ==
    /\ current_user # NoUser
    /\ current_user' = NoUser
    /\ last' = [op |-> "logout"]
    /\ UNCHANGED <<broken, notifications, now, users, workouts, nutrition,
                   challenges, disk, history>>

\* delete_account that takes the user's workouts out of the log as well
delete_account_cascade ==
    IF current_user \notin DOMAIN users
    THEN /\ last' = [op |-> "delete_account", user |-> current_user,
                     raised |-> "KeyError"]
         /\ UNCHANGED <<broken, notifications, now, users, workouts, nutrition,
                        challenges, disk, current_user, history>>
    ELSE LET users1 == Del(users, current_user)
             Others(w) == w.username # current_user
             workouts1 == SelectSeq(workouts, Others)
         IN /\ users' = users1
            /\ workouts' = workouts1
            /\ disk' = save_data(users1, workouts1, nutrition, challenges)
            /\ current_user' = NoUser
            /\ last' = [op |-> "delete_account", user |-> current_user,
                        raised |-> "", saved |-> save_data_returns]
            /\ UNCHANGED <<broken, notifications, now, nutrition, challenges, history>>

\* FitnessTrackerGroup8.delete_account, confirmed by the user
delete_account ==
    IF current_user \notin DOMAIN users
    THEN \* del self.db.data['users'][None] raises KeyError
         /\ last' = [op |-> "delete_account", user |-> current_user,
                     raised |-> "KeyError"]
         /\ UNCHANGED <<broken, notifications, now, users, workouts, nutrition,
                        challenges, disk,
                        current_user, history>>
    ELSE LET users1 == Del(users, current_user)
         IN /\ users' = users1
            /\ disk' = save_data(users1, workouts, nutrition, challenges)
            /\ current_user' = NoUser
            /\ last' = [op |-> "delete_account", user |-> current_user,
                        raised |-> "", saved |-> save_data_returns]
            /\ UNCHANGED <<broken, notifications, now, workouts, nutrition,
                           challenges, history>>

----------------------------------------------------------------------------
(* Workout log and streak calculator *)

\* update_streak that starts the streak over at every workout
update_streak_restart(us, username, t) ==
    LET last_workout == us[username].stats.last_workout
    IN IF last_workout # None
       THEN [us EXCEPT ![username].stats.streak_days = 1]
       ELSE us

\* update_streak that counts a calendar day once
update_streak_once_a_day(us, username, t) ==
    LET last_workout == us[username].stats.last_workout
    IN IF last_workout # None
       THEN LET last_date == date(fromisoformat(last_workout))
                today == date(t)
            IN IF today = last_date
               THEN us
               ELSE IF today - last_date <= 1
               THEN [us EXCEPT ![username].stats.streak_days = @ + 1]
               ELSE [us EXCEPT ![username].stats.streak_days = 1]
       ELSE us

\* Database.update_streak, on the users mapping us at clock reading t
update_streak(us, username, t) ==
    LET last_workout == us[username].stats.last_workout
    IN IF last_workout # None
       THEN LET last_date == date(fromisoformat(last_workout))
                today == date(t)
            IN IF today - last_date <= 1
               THEN [us EXCEPT ![username].stats.streak_days = @ + 1]
               ELSE [us EXCEPT ![username].stats.streak_days = 1]
       ELSE us

\* The record built by Database.add_workout: workout_data is spread last
NewWorkout(username, workout_data, t) ==
    Merge([id |-> Len(workouts) + 1, username |-> username, date |-> isoformat(t)],
          workout_data)

\* the stats update without the last_workout stamp
UpdateStats_no_stamp(us, username, workout_data, t) ==
    [us EXCEPT ![username].stats.total_workouts = @ + 1,
               ![username].stats.total_calories = @ + Get(workout_data, "calories", 0)]

\* the stats update that leaves the calories out
UpdateStats_no_calories(us, username, workout_data, t) ==
    [us EXCEPT ![username].stats.total_workouts = @ + 1,
               ![username].stats.last_workout = isoformat(t)]

\* the stats update that adds the minutes to the calories
UpdateStats_by_duration(us, username, workout_data, t) ==
    [us EXCEPT ![username].stats.total_workouts = @ + 1,
               ![username].stats.total_calories = @ + Get(workout_data, "duration", 0),
               ![username].stats.last_workout = isoformat(t)]

\* The stats update of Database.add_workout, before the streak check
UpdateStats(us, username, workout_data, t) ==
    [us EXCEPT ![username].stats.total_workouts = @ + 1,
               ![username].stats.total_calories = @ + Get(workout_data, "calories", 0),
               ![username].stats.last_workout = isoformat(t)]

\* Database.add_workout.  The record is appended before the user is looked
\* up, so an unknown username raises KeyError with the record already in the
\* log and nothing saved.  The three datetime.now() of one call read the
\* same tick.
add_workout(username, workout_data) ==
    LET workout == NewWorkout(username, workout_data, now)
        workouts1 == Append(workouts, workout)
    IN IF username \notin DOMAIN users
       THEN /\ workouts' = workouts1
            /\ history' = history
            /\ last' = [op |-> "add_workout", user |-> username,
                        data |-> workout_data, raised |-> "KeyError"]
            /\ UNCHANGED <<broken, now, users, nutrition, challenges, disk, current_user>>
       ELSE LET users1 == UpdateStats(users, username, workout_data, now)
                users2 == update_streak(users1, username, now)
            IN /\ workouts' = workouts1
               /\ users' = users2
               /\ disk' = save_data(users2, workouts1, nutrition, challenges)
               /\ history' = [history EXCEPT
                                  ![username].days = Append(@, date(now)),
                                  ![username].calories =
                                      @ + Get(workout_data, "calories", 0)]
               /\ last' = [op |-> "add_workout", user |-> username,
                           data |-> workout_data, raised |-> "",
                           ret |-> workout.id, saved |-> save_data_returns]
               /\ UNCHANGED <<broken, now, nutrition, challenges, current_user>>

\* NotificationManager.add_notification: the list with the new notification
add_notification(user, title, message, notification_type) ==
    Append(notifications,
           [id |-> Len(notifications) + 1, user |-> user, title |-> title,
            message |-> message, type |-> notification_type,
            timestamp |-> isoformat(now), read |-> FALSE])

\* The save_workout handler of the log dialog, which quick_action opens only
\* for a logged-in user: add_workout, then the "Workout Logged!" notification
\* unless add_workout raised
save_workout(workout_data) ==
    /\ current_user # NoUser
    /\ add_workout(current_user, workout_data)
    /\ notifications' =
           IF current_user \in DOMAIN users
           THEN add_notification(current_user, "Workout Logged!",
                                 <<"Great job! You logged a",
                                   Get(workout_data, "duration", 0), "minute",
                                   Get(workout_data, "type", ""), "session.">>,
                                 "success")
           ELSE notifications

\* the loop with `>` for `>=` in the cutoff test
RECURSIVE SelectWorkouts_strict(_, _, _)
SelectWorkouts_strict(username, cutoff, n) ==
    IF n = 0 THEN << >>
    ELSE LET w == workouts[n]
             rest == SelectWorkouts_strict(username, cutoff, n - 1)
         IN IF w.username = username /\ fromisoformat(w.date) > cutoff
            THEN Append(rest, w)
            ELSE rest

\* The loop of Database.get_user_workouts over the first n records
RECURSIVE SelectWorkouts(_, _, _)
SelectWorkouts(username, cutoff, n) ==
    IF n = 0 THEN << >>
    ELSE LET w == workouts[n]
             rest == SelectWorkouts(username, cutoff, n - 1)
         IN IF w.username = username /\ fromisoformat(w.date) >= cutoff
            THEN Append(rest, w)
            ELSE rest

\* Database.get_user_workouts(username, days), as a value
UserWorkouts(username, days) ==
    SelectWorkouts(username, now - timedelta(days), Len(workouts))

\* sum(w.get(key, 0) for w in ws)
RECURSIVE SumField(_, _)
SumField(ws, key) ==
    IF ws = << >> THEN 0
    ELSE Get(Head(ws), key, 0) + SumField(Tail(ws), key)

\* the defaultdict(int) filled by the loop of generate_report
RECURSIVE CountTypes(_)
CountTypes(ws) ==
    IF ws = << >> THEN << >>
    ELSE LET rest == CountTypes(SubSeq(ws, 1, Len(ws) - 1))
             ty == Get(ws[Len(ws)], "type", "Other")
         IN Put(rest, ty, Get(rest, ty, 0) + 1)

WeeklyDays == 7
MonthlyDays == 30

\* generate_report with the two windows swapped
Report_swapped(username, report_type) ==
    LET ws == UserWorkouts(username,
                           IF report_type = "monthly" THEN WeeklyDays ELSE MonthlyDays)
    IN IF ws = << >>
       THEN [none |-> TRUE]
       ELSE [none |-> FALSE,
             total_workouts |-> Len(ws),
             total_calories |-> SumField(ws, "calories"),
             total_duration |-> SumField(ws, "duration"),
             avg_calories |-> <<SumField(ws, "calories"), Len(ws)>>,
             avg_duration |-> <<SumField(ws, "duration"), Len(ws)>>,
             workout_types |-> CountTypes(ws)]

\* Database.generate_report, as a value; the averages are exact quotients,
\* kept as numerator and denominator
Report(username, report_type) ==
    LET ws == UserWorkouts(username,
                           IF report_type = "monthly" THEN MonthlyDays ELSE WeeklyDays)
    IN IF ws = << >>
       THEN [none |-> TRUE]
       ELSE [none |-> FALSE,
             total_workouts |-> Len(ws),
             total_calories |-> SumField(ws, "calories"),
             total_duration |-> SumField(ws, "duration"),
             avg_calories |-> <<SumField(ws, "calories"), Len(ws)>>,
             avg_duration |-> <<SumField(ws, "duration"), Len(ws)>>,
             workout_types |-> CountTypes(ws)]

\* Database.get_user_workouts
get_user_workouts(username, days) ==
    /\ last' = [op |-> "get_user_workouts", user |-> username, days |-> days,
                ret |-> UserWorkouts(username, days)]
    /\ UNCHANGED <<broken, notifications, now, users, workouts, nutrition,
                        challenges, disk,
                   current_user, history>>

\* Database.generate_report
generate_report(username, report_type) ==
    /\ last' = [op |-> "generate_report", user |-> username,
                report_type |-> report_type,
                ret |-> Report(username, report_type)]
    /\ UNCHANGED <<broken, notifications, now, users, workouts, nutrition,
                        challenges, disk,
                   current_user, history>>

----------------------------------------------------------------------------
(* Challenges *)

\* the membership entry numbered from 0
Membership_from_zero(challenge, t) ==
    [id |-> challenge.id - 1, joined_at |-> isoformat(t), progress |-> 0]

\* The entry join_challenge appends to the user's own list
Membership(challenge, t) ==
    [id |-> challenge.id, joined_at |-> isoformat(t), progress |-> 0]

\* x in a Python list
In(x, list) == \E k \in 1 .. Len(list) : list[k] = x

\* the test that lets everybody in again
IsParticipant_never(user, challenge) == FALSE

\* the test that also looks for the challenge in the user's own list
IsParticipant_or_member(user, challenge) ==
    \/ In(user, challenge.participants)
    \/ /\ user \in DOMAIN users
       /\ \E k \in 1 .. Len(users[user].challenges) :
              users[user].challenges[k].id = challenge.id

\* `self.current_user not in challenge['participants']`, the one test of
\* join_challenge before it appends
IsParticipant(user, challenge) == In(user, challenge.participants)

\* FitnessTrackerGroup8.join_challenge on the card of the i-th challenge,
\* confirmed by the user
join_challenge(i) ==
    /\ current_user # NoUser
    /\ i \in 1 .. Len(challenges)
    /\ IF IsParticipant(current_user, challenges[i])
       THEN /\ last' = [op |-> "join_challenge", challenge |-> i,
                        user |-> current_user, joined |-> FALSE,
                        raised |-> "", saved |-> FALSE]
            /\ UNCHANGED <<broken, notifications, now, users, workouts, nutrition,
                           challenges, disk, current_user, history>>
       ELSE LET challenges1 ==
                    [challenges EXCEPT ![i].participants = Append(@, current_user)]
            IN IF current_user \notin DOMAIN users
               THEN \* self.db.data['users'][current_user] raises KeyError
                    \* after the participants were extended
                    /\ challenges' = challenges1
                    /\ last' = [op |-> "join_challenge", challenge |-> i,
                                user |-> current_user, joined |-> FALSE,
                                raised |-> "KeyError", saved |-> FALSE]
                    /\ UNCHANGED <<broken, notifications, now, users, workouts,
                                   nutrition, disk, current_user, history>>
               ELSE LET users1 ==
                            [users EXCEPT ![current_user].challenges =
                                Append(@, Membership(challenges[i], now))]
                    IN /\ challenges' = challenges1
                       /\ users' = users1
                       /\ disk' = save_data(users1, workouts, nutrition, challenges1)
                       /\ notifications' =
                              add_notification(current_user, "Challenge Joined!",
                                  <<"You've joined the", challenges[i].name,
                                    "challenge. Good luck!">>, "success")
                       /\ last' = [op |-> "join_challenge", challenge |-> i,
                                   user |-> current_user, joined |-> TRUE,
                                   raised |-> "", saved |-> save_data_returns]
                       /\ UNCHANGED <<broken, now, workouts, nutrition,
                                      current_user, history>>

\* What int() makes of the text of an entry; any other text raises ValueError
IntValue == [x \in {"0", "7", "50"} |->
                IF x = "0" THEN 0 ELSE IF x = "7" THEN 7 ELSE 50]
IsIntText(x) == x \in DOMAIN IntValue
int(x) == IntValue[x]

\* What the user typed into the dialog of create_challenge
GoodForm == [name |-> "Plank Month", description |-> "A plank a day",
             metric |-> "minutes", goal |-> "50", duration |-> "7",
             reward |-> "Iron Badge"]
ChallengeForms ==
    { GoodForm,
      [GoodForm EXCEPT !.name = ""],
      [GoodForm EXCEPT !.description = ""],
      [GoodForm EXCEPT !.metric = ""],
      [GoodForm EXCEPT !.reward = ""],
      [GoodForm EXCEPT !.goal = ""],
      [GoodForm EXCEPT !.goal = "abc"],
      [GoodForm EXCEPT !.goal = "0"],
      [GoodForm EXCEPT !.duration = ""] }

\* the dict numbered by the length of the list
ChallengeData_zero_based(form, t) ==
    [id |-> Len(challenges),
     name |-> form.name,
     description |-> form.description,
     metric |-> form.metric,
     goal |-> int(form.goal),
     duration |-> int(form.duration),
     reward |-> form.reward,
     created_by |-> current_user,
     created_at |-> isoformat(t),
     participants |-> <<current_user>>]

\* The dict built by save_challenge from the form
ChallengeData(form, t) ==
    [id |-> Len(challenges) + 1,
     name |-> form.name,
     description |-> form.description,
     metric |-> form.metric,
     goal |-> int(form.goal),
     duration |-> int(form.duration),
     reward |-> form.reward,
     created_by |-> current_user,
     created_at |-> isoformat(t),
     participants |-> <<current_user>>]

\* all(challenge_data.values()): no value is 0, '' or []
AllValues(d) ==
    /\ d.id # 0
    /\ d.name # ""
    /\ d.description # ""
    /\ d.metric # ""
    /\ d.goal # 0
    /\ d.duration # 0
    /\ d.reward # ""
    /\ d.created_by # ""
    /\ d.participants # << >>

\* save_challenge, the handler of the dialog that create_challenge opens for
\* a logged-in user
save_challenge(form) ==
    /\ current_user # NoUser
    /\ IF ~IsIntText(form.goal) \/ ~IsIntText(form.duration)
       THEN \* int() raises inside the dict display
            /\ last' = [op |-> "save_challenge", form |-> form,
                        raised |-> "ValueError", created |-> FALSE,
                        error |-> "", saved |-> FALSE]
            /\ UNCHANGED <<broken, notifications, now, users, workouts, nutrition,
                           challenges, disk, current_user, history>>
       ELSE LET challenge_data == ChallengeData(form, now)
                challenges1 == Append(challenges, challenge_data)
            IN IF ~AllValues(challenge_data)
               THEN /\ last' = [op |-> "save_challenge", form |-> form,
                                raised |-> "", created |-> FALSE,
                                error |-> "Please fill all fields",
                                saved |-> FALSE]
                    /\ UNCHANGED <<broken, notifications, now, users, workouts,
                                   nutrition, challenges, disk, current_user,
                                   history>>
               ELSE /\ challenges' = challenges1
                    /\ disk' = save_data(users, workouts, nutrition, challenges1)
                    /\ last' = [op |-> "save_challenge", form |-> form,
                                raised |-> "", created |-> TRUE, error |-> "",
                                saved |-> save_data_returns]
                    /\ UNCHANGED <<broken, notifications, now, users, workouts,
                                   nutrition, current_user, history>>

----------------------------------------------------------------------------
(* Start of the process, and the file system it runs on *)

\* load_all_data with one try block around the four loads
load_all_data_one_try ==
    IF Unreadable = {}
    THEN [users |-> LoadFile("users", << >>),
          workouts |-> LoadFile("workouts", << >>),
          nutrition |-> LoadFile("nutrition", << >>),
          challenges |-> LoadFile("challenges", get_default_challenges)]
    ELSE [users |-> << >>, workouts |-> << >>, nutrition |-> << >>,
          challenges |-> get_default_challenges]

\* Database.load_all_data: each of the four records from its own file
load_all_data ==
    [users |-> LoadFile("users", << >>),
     workouts |-> LoadFile("workouts", << >>),
     nutrition |-> LoadFile("nutrition", << >>),
     challenges |-> LoadFile("challenges", get_default_challenges)]

\* The process ends and FitnessTrackerGroup8.__init__ runs again: a new
\* Database, a new NotificationManager, nobody logged in
Restart ==
    LET data == load_all_data
    IN /\ users' = data.users
       /\ workouts' = data.workouts
       /\ nutrition' = data.nutrition
       /\ challenges' = data.challenges
       /\ notifications' = << >>
       /\ current_user' = NoUser
       /\ last' = [op |-> "restart", unreadable |-> Unreadable]
       /\ UNCHANGED <<broken, now, disk, history>>

\* The file system starts or stops refusing one of the files
SetFault(f) ==
    /\ broken # f
    /\ broken' = f
    /\ last' = [op |-> "fault"]
    /\ UNCHANGED <<notifications, now, users, workouts, nutrition, challenges,
                   disk, current_user, history>>

----------------------------------------------------------------------------
(* Settings, the workout stubs, the notification centre, the background    *)
(* thread                                                                  *)

\* What the user set in the settings tab: the four profile entries, the four
\* check boxes and the units
SettingsForms ==
    { [profile |-> [age |-> "31", weight |-> "70", height |-> "175",
                    gender |-> "F"],
       notif |-> [workout_reminders |-> TRUE, achievement_alerts |-> TRUE,
                  challenge_updates |-> TRUE, friend_activity |-> TRUE],
       units |-> "metric"],
      [profile |-> [age |-> "30", weight |-> "68", height |-> "175",
                    gender |-> "F"],
       notif |-> [workout_reminders |-> FALSE, achievement_alerts |-> TRUE,
                  challenge_updates |-> TRUE, friend_activity |-> FALSE],
       units |-> "imperial"] }

\* save_settings without the save_data call
save_settings_unsaved(form) ==
    /\ current_user \in DOMAIN users
    /\ users' = [users EXCEPT
                    ![current_user].profile = Merge(@, form.profile),
                    ![current_user].settings =
                        Merge(@, Merge(form.notif, [units |-> form.units]))]
    /\ last' = [op |-> "save_settings", user |-> current_user,
                form |-> form, saved |-> TRUE]
    /\ UNCHANGED <<broken, notifications, now, workouts, nutrition,
                   challenges, disk, current_user, history>>

\* save_settings, the handler of the settings tab, which is built for a
\* logged-in user
save_settings(form) ==
    /\ current_user \in DOMAIN users
    /\ LET users1 ==
               [users EXCEPT
                   ![current_user].profile = Merge(@, form.profile),
                   ![current_user].settings =
                       Merge(@, Merge(form.notif, [units |-> form.units]))]
       IN /\ users' = users1
          /\ disk' = save_data(users1, workouts, nutrition, challenges)
          /\ last' = [op |-> "save_settings", user |-> current_user,
                      form |-> form, saved |-> save_data_returns]
          /\ UNCHANGED <<broken, notifications, now, workouts, nutrition,
                         challenges, current_user, history>>

\* FitnessTrackerGroup8.edit_workout on the i-th row: a message box
edit_workout(i) ==
    /\ i \in 1 .. Len(workouts)
    /\ last' = [op |-> "edit_workout", row |-> i]
    /\ UNCHANGED <<broken, notifications, now, users, workouts, nutrition,
                   challenges, disk, current_user, history>>

\* delete_workout that takes the row out of the log
delete_workout_removes(i) ==
    /\ i \in 1 .. Len(workouts)
    /\ LET workouts1 == SubSeq(workouts, 1, i - 1)
                            \o SubSeq(workouts, i + 1, Len(workouts))
       IN /\ workouts' = workouts1
          /\ disk' = save_data(users, workouts1, nutrition, challenges)
    /\ last' = [op |-> "delete_workout", row |-> i]
    /\ UNCHANGED <<broken, notifications, now, users, nutrition, challenges,
                   current_user, history>>

\* FitnessTrackerGroup8.delete_workout on the i-th row, confirmed by the
\* user: two message boxes
delete_workout(i) ==
    /\ i \in 1 .. Len(workouts)
    /\ last' = [op |-> "delete_workout", row |-> i]
    /\ UNCHANGED <<broken, notifications, now, users, workouts, nutrition,
                   challenges, disk, current_user, history>>

\* a check_reminders that reminds the user who is logged in
check_reminders_notifies ==
    /\ notifications' =
           IF current_user # NoUser
           THEN add_notification(current_user, "Reminder",
                                 <<"Time for your workout">>, "info")
           ELSE notifications
    /\ last' = [op |-> "check_reminders"]
    /\ UNCHANGED <<broken, now, users, workouts, nutrition, challenges, disk,
                   current_user, history>>

\* One turn of the loop of check_reminders in the background thread:
\* time.sleep(60), pass
check_reminders ==
    /\ last' = [op |-> "check_reminders"]
    /\ UNCHANGED <<broken, notifications, now, users, workouts, nutrition,
                   challenges, disk, current_user, history>>

\* save_water, the handler of the water dialog, which quick_action opens only
\* for a logged-in user: a notification and nothing else
save_water(amount) ==
    /\ current_user # NoUser
    /\ notifications' =
           add_notification(current_user, "Water Logged",
                            <<"You've logged", amount,
                              "ml of water. Stay hydrated!">>, "info")
    /\ last' = [op |-> "save_water", user |-> current_user, amount |-> amount]
    /\ UNCHANGED <<broken, now, users, workouts, nutrition, challenges, disk,
                   current_user, history>>

\* [n for n in list if n['user'] == user], and with unread_only the ones
\* among them that are not read
RECURSIVE FilterNotifications(_, _, _)
FilterNotifications(list, user, unread_only) ==
    IF list = << >> THEN << >>
    ELSE LET n == Head(list)
             rest == FilterNotifications(Tail(list), user, unread_only)
         IN IF n.user = user /\ (unread_only => ~n.read)
            THEN <<n>> \o rest
            ELSE rest

\* One step of sorted(.., key=timestamp, reverse=True): n goes behind
\* every element that is not older than n (the sort is stable)
RECURSIVE InsertNewestFirst(_, _)
InsertNewestFirst(n, list) ==
    IF list = << >> THEN <<n>>
    ELSE IF fromisoformat(Head(list).timestamp) >= fromisoformat(n.timestamp)
    THEN <<Head(list)>> \o InsertNewestFirst(n, Tail(list))
    ELSE <<n>> \o list

\* the list as it is, without the sort
SortedNewestFirst_unsorted(list) == list

\* sorted(list, key=lambda x: x['timestamp'], reverse=True)
RECURSIVE SortedNewestFirst(_)
SortedNewestFirst(list) ==
    IF list = << >> THEN << >>
    ELSE InsertNewestFirst(list[Len(list)],
                           SortedNewestFirst(SubSeq(list, 1, Len(list) - 1)))

\* NotificationManager.get_user_notifications
get_user_notifications(user, unread_only) ==
    /\ last' = [op |-> "get_user_notifications", user |-> user,
                unread_only |-> unread_only,
                ret |-> SortedNewestFirst(
                            FilterNotifications(notifications, user, unread_only))]
    /\ UNCHANGED <<broken, notifications, now, users, workouts, nutrition,
                   challenges, disk, current_user, history>>

\* the loop that marks every notification up to the one with this id
MarkFirst_up_to(list, notification_id) ==
    LET matches == {k \in 1 .. Len(list) : list[k].id = notification_id}
    IN IF matches = {} THEN list
       ELSE LET first == CHOOSE k \in matches : \A j \in matches : k <= j
            IN [k \in 1 .. Len(list) |->
                   IF k <= first THEN [list[k] EXCEPT !.read = TRUE]
                   ELSE list[k]]

\* The loop of NotificationManager.mark_as_read: the first notification with
\* this id is marked, and the loop ends
MarkFirst(list, notification_id) ==
    LET matches == {k \in 1 .. Len(list) : list[k].id = notification_id}
    IN IF matches = {} THEN list
       ELSE LET first == CHOOSE k \in matches : \A j \in matches : k <= j
            IN [list EXCEPT ![first].read = TRUE]

\* NotificationManager.mark_as_read
mark_as_read(notification_id) ==
    /\ notifications' = MarkFirst(notifications, notification_id)
    /\ last' = [op |-> "mark_as_read", id |-> notification_id]
    /\ UNCHANGED <<broken, now, users, workouts, nutrition, challenges, disk,
                   current_user, history>>

\* mark_all_read, the button of the notifications panel, which opens only
\* for a logged-in user
mark_all_read ==
    /\ current_user # NoUser
    /\ notifications' =
           [k \in 1 .. Len(notifications) |->
               IF notifications[k].user = current_user
               THEN [notifications[k] EXCEPT !.read = TRUE]
               ELSE notifications[k]]
    /\ last' = [op |-> "mark_all_read", user |-> current_user]
    /\ UNCHANGED <<broken, now, users, workouts, nutrition, challenges, disk,
                   current_user, history>>

----------------------------------------------------------------------------
(* Specifications.  Each one runs the same operations on its own small     *)
(* input sets; the guards that stop the clock and the log are here.        *)

\* Accounts: both users, both passwords and profiles, one kind of workout
Next ==
    \/ now + TicksPerDay <= MaxNow /\ Tick(TicksPerDay)
    \/ \E u \in Usernames, r \in Registrations : add_user(u, r.password, r.profile)
    \/ \E u \in Usernames, p \in Passwords : verify_user(u, p)
    \/ logout
    \/ delete_account
    \/ Len(workouts) < MaxWorkouts
       /\ \E u \in Usernames : add_workout(u, RunningInput)
       /\ UNCHANGED notifications

Spec == Init /\ [][Next]_vars

\* The workout log: every shape of workout_data, both usernames, one password
NextLog ==
    \/ now + TicksPerDay <= MaxLogNow /\ Tick(TicksPerDay)
    \/ \E u \in Usernames : add_user(u, FirstRegistration.password,
                                     FirstRegistration.profile)
    \/ \E u \in Usernames : verify_user(u, FirstRegistration.password)
    \/ delete_account
    \/ Len(workouts) < MaxLog
       /\ \E u \in Usernames, w \in WorkoutInputs : add_workout(u, w)
       /\ UNCHANGED notifications

SpecLog == Init /\ [][NextLog]_vars

\* The streak, driven through the GUI: one user who registers, logs in, logs
\* workouts at any distance in time and deletes the account
NextStreak ==
    \/ \E d \in {1, TicksPerDay, 2 * TicksPerDay} :
          now + d <= MaxStreakNow /\ Tick(d)
    \/ add_user("alice", FirstRegistration.password, FirstRegistration.profile)
    \/ verify_user("alice", FirstRegistration.password)
    \/ delete_account
    \/ Len(workouts) < MaxStreakLog
       /\ \E w \in {RunningInput, YogaInput} : save_workout(w)

SpecStreak == Init /\ [][NextStreak]_vars

\* Queries: records of both users at sub-day distances, every window
NextQuery ==
    \/ \E d \in {1, TicksPerDay} : now + d <= MaxQueryNow /\ Tick(d)
    \/ add_user("alice", FirstRegistration.password, FirstRegistration.profile)
    \/ Len(workouts) < MaxQueryLog
       /\ \E u \in Usernames, w \in {RunningInput, DatedInput, ForeignInput} :
             add_workout(u, w)
       /\ UNCHANGED notifications
    \/ \E u \in Usernames, days \in 0 .. MaxWindow : get_user_workouts(u, days)

SpecQuery == Init /\ [][NextQuery]_vars

\* Reports: the clock moves by a week or by the rest of a month
NextReport ==
    \/ \E d \in {timedelta(WeeklyDays), timedelta(MonthlyDays - WeeklyDays)} :
          now + d <= MaxReportNow /\ Tick(d)
    \/ add_user("alice", FirstRegistration.password, FirstRegistration.profile)
    \/ Len(workouts) < MaxReportLog
       /\ \E u \in Usernames, w \in {RunningInput, BareInput} : add_workout(u, w)
       /\ UNCHANGED notifications
    \/ \E u \in Usernames, k \in {"weekly", "monthly"} : generate_report(u, k)

SpecReport == Init /\ [][NextReport]_vars

\* The current user may log one more workout, or join once more, within the
\* bounds of the specification
MayLog(max) ==
    /\ Len(workouts) < max
    /\ current_user \in DOMAIN users
    /\ users[current_user].stats.total_workouts < max
    /\ Len(history[current_user].days) < max
MayJoin(max) ==
    /\ current_user \in DOMAIN users
    /\ Len(users[current_user].challenges) < max

\* The store: one user, every fault of every file, restarts
NextStore ==
    \/ add_user("alice", FirstRegistration.password, FirstRegistration.profile)
    \/ verify_user("alice", FirstRegistration.password)
    \/ MayLog(MaxStoreLog) /\ save_workout(RunningInput)
    \/ MayJoin(MaxStoreJoins) /\ join_challenge(1)
    \/ \E f \in Faults \cup {NoFault} : SetFault(f)
    \/ Restart

SpecStore == Init /\ [][NextStore]_vars

\* The challenges file cannot be opened
ChallengesFault == [file |-> "challenges", how |-> "open"]

\* Joining: one user who joins the seeded challenges and deletes the account,
\* over restarts that may lose the challenges file
NextJoin ==
    \/ add_user("alice", FirstRegistration.password, FirstRegistration.profile)
    \/ \E u \in Usernames : verify_user(u, FirstRegistration.password)
    \/ delete_account
    \/ MayJoin(MaxJoins) /\ \E i \in 1 .. Len(challenges) : join_challenge(i)
    \/ \E f \in {NoFault, ChallengesFault} : SetFault(f)
    \/ Restart

SpecJoin == Init /\ [][NextJoin]_vars

\* Creating: one user who fills the dialog in every way and joins
NextCreate ==
    \/ add_user("alice", FirstRegistration.password, FirstRegistration.profile)
    \/ \E u \in Usernames : verify_user(u, FirstRegistration.password)
    \/ logout
    \/ Len(challenges) < Len(get_default_challenges) + MaxCreated
       /\ \E form \in ChallengeForms : save_challenge(form)
    \/ MayJoin(MaxCreateJoins) /\ \E i \in 1 .. Len(challenges) : join_challenge(i)

SpecCreate == Init /\ [][NextCreate]_vars

\* Deleting: two users with workouts and memberships who delete their
\* accounts
NextDelete ==
    \/ \E u \in Usernames : add_user(u, FirstRegistration.password,
                                     FirstRegistration.profile)
    \/ \E u \in Usernames : verify_user(u, FirstRegistration.password)
    \/ delete_account
    \/ MayLog(MaxDeleteLog) /\ save_workout(RunningInput)
    \/ MayJoin(MaxDeleteJoins) /\ join_challenge(1)

SpecDelete == Init /\ [][NextDelete]_vars

\* Every operation of the core on one registered user and one username that
\* is never registered, with the background thread, while no file fails
NextCore ==
    \/ add_user("alice", FirstRegistration.password, FirstRegistration.profile)
    \/ \E u \in Usernames : verify_user(u, FirstRegistration.password)
    \/ delete_account
    \/ Len(workouts) < MaxCoreLog
       /\ \E u \in Usernames : add_workout(u, RunningInput)
       /\ UNCHANGED notifications
    \/ MayJoin(MaxCoreJoins) /\ join_challenge(1)
    \/ Len(challenges) < Len(get_default_challenges) + MaxCoreCreated
       /\ \E form \in {GoodForm, [GoodForm EXCEPT !.goal = "abc"]} :
             save_challenge(form)
    \/ \E form \in SettingsForms : save_settings(form)
    \/ \E i \in 1 .. Len(workouts) : edit_workout(i)
    \/ \E i \in 1 .. Len(workouts) : delete_workout(i)
    \/ \E days \in {0, 1} : get_user_workouts("alice", days)
    \/ generate_report("alice", "weekly")
    \/ check_reminders

SpecCore == Init /\ [][NextCore]_vars

\* The notification centre: two users who log water at different times,
\* read their notifications and mark them
NextNotify ==
    \/ now + 1 <= MaxNotifyNow /\ Tick(1)
    \/ \E u \in Usernames : add_user(u, FirstRegistration.password,
                                     FirstRegistration.profile)
    \/ \E u \in Usernames : verify_user(u, FirstRegistration.password)
    \/ Len(notifications) < MaxNotes /\ save_water(250)
    \/ \E id \in 1 .. Len(notifications) + 1 : mark_as_read(id)
    \/ mark_all_read
    \/ \E u \in Usernames, unread_only \in BOOLEAN :
          get_user_notifications(u, unread_only)

SpecNotify == Init /\ [][NextNotify]_vars

\* The statistics of a workout: two users, workouts with and without
\* calories and one that carries somebody else's username
NextStats ==
    \/ now + TicksPerDay <= MaxStatsNow /\ Tick(TicksPerDay)
    \/ \E u \in Usernames : add_user(u, FirstRegistration.password,
                                     FirstRegistration.profile)
    \/ \E u \in Usernames : verify_user(u, FirstRegistration.password)
    \/ delete_account
    \/ Len(workouts) < MaxStatsLog
       /\ \E u \in Usernames, w \in {RunningInput, YogaInput, ForeignInput} :
             add_workout(u, w)
       /\ UNCHANGED notifications

SpecStats == Init /\ [][NextStats]_vars
----------------------------------------------------------------------------
(* Properties *)

\* The step is a call of operation op (every call records itself in last)
Called(op) == last'.op = op

\* What a failed call must leave alone: the aggregate and the four files
Aggregate == <<users, workouts, nutrition, challenges>>

\* C1: add_user on a username that is already in data['users'] returns False
\* and leaves the users (password hash, profile, settings, stats,
\* achievements, challenges of every user), the workout log, the challenge
\* list and the files on disk as they were.
C1_TakenUsernameRejected ==
    [][(Called("add_user") /\ last'.user \in DOMAIN users)
         => /\ last'.ret = FALSE
            /\ UNCHANGED Aggregate
            /\ UNCHANGED disk]_vars

\* C1 witness: a second registration of a user who has logged in and has a
\* workout was refused
C1_Witness ==
    /\ last.op = "add_user"
    /\ last.ret = FALSE
    /\ users[last.user].last_login # None
    /\ users[last.user].stats.total_workouts > 0

\* C2: verify_user(u, p) returns True exactly when u is registered and p is
\* the password u was last registered with, whatever calls came before.
C2_AuthenticateIffRegisteredPassword ==
    [][Called("verify_user")
         => (last'.ret = TRUE <=>
                /\ last'.user \in DOMAIN users
                /\ last'.password = history[last'.user].password)]_vars

\* C2 witness: the password of the other registration was refused for a user
\* who has logged in and recorded a workout
C2_Witness ==
    /\ last.op = "verify_user"
    /\ last.ret = FALSE
    /\ last.user \in DOMAIN users
    /\ history[last.user].password = "pw2"
    /\ last.password = "pw1"
    /\ users[last.user].stats.total_workouts > 0

\* C3: verify_user returns the same False for an unknown username and for a
\* wrong password and then changes neither the aggregate nor the files; a new
\* user record has last_login None, and last_login of an existing user only
\* changes in a verify_user call for that user that returns True.
C3_FailedLoginSilent ==
    [][/\ (Called("verify_user")
             /\ (\/ last'.user \notin DOMAIN users
                 \/ users[last'.user].password # sha256_hexdigest(last'.password)))
          => /\ last'.ret = FALSE
             /\ UNCHANGED Aggregate
             /\ UNCHANGED disk
             /\ UNCHANGED current_user
       /\ \A u \in DOMAIN users' :
             IF u \in DOMAIN users
             THEN users'[u].last_login # users[u].last_login
                     => /\ Called("verify_user")
                        /\ last'.user = u
                        /\ last'.ret = TRUE
                        /\ users'[u].last_login = isoformat(now)
             ELSE users'[u].last_login = None]_vars

\* C3 witness: a wrong password for a user whose earlier login is on record,
\* at a later time than that login
C3_Witness ==
    /\ last.op = "verify_user"
    /\ last.ret = FALSE
    /\ last.user \in DOMAIN users
    /\ users[last.user].last_login # None
    /\ fromisoformat(users[last.user].last_login) < now

\* The days in ds are consecutive calendar days, one call per day
ConsecutiveDays(ds) == \A i \in 1 .. Len(ds) - 1 : ds[i + 1] = ds[i] + 1

\* C4: a user who, since registering, has made N >= 1 add_workout calls on N
\* consecutive calendar days has streak_days = N.
C4_ConsecutiveDaysStreak ==
    \A u \in DOMAIN users :
        (Len(history[u].days) >= 1 /\ ConsecutiveDays(history[u].days))
            => users[u].stats.streak_days = Len(history[u].days)

\* C4 witness: three workouts on three consecutive days
C4_Witness ==
    \E u \in DOMAIN users :
        /\ Len(history[u].days) = 3
        /\ ConsecutiveDays(history[u].days)
        /\ last.op = "add_workout"

\* The previous last_workout of the user lies two or more calendar days
\* before today
GapBefore(u) ==
    /\ users[u].stats.last_workout # None
    /\ date(now) - date(fromisoformat(users[u].stats.last_workout)) >= 2

\* C5: an add_workout call for a user whose previous last_workout lies two or
\* more days before today resets streak_days to 1.
C5_GapResetsStreak ==
    [][(Called("add_workout") /\ last'.raised = ""
            /\ GapBefore(last'.user))
         => users'[last'.user].stats.streak_days = 1]_vars

\* The workout log holds a record whose username field is u
HasRecord(u) == \E i \in 1 .. Len(workouts) : workouts[i].username = u

\* C6 as claimed: a registered user whose username owns a record of the
\* workout log has streak_days >= 1.
C6_StreakPositiveWithLogRecord ==
    \A u \in DOMAIN users : HasRecord(u) => users[u].stats.streak_days >= 1

\* C6 as amended: streak_days >= 1 exactly for the users whose own workout
\* count is >= 1, and no call takes the streak_days of a user record back
\* below 1.
C6_StreakPositiveWithOwnWorkout ==
    [][/\ \A u \in DOMAIN users' :
             users'[u].stats.streak_days >= 1
                <=> users'[u].stats.total_workouts >= 1
       /\ \A u \in DOMAIN users \cap DOMAIN users' :
             users[u].stats.streak_days >= 1 => users'[u].stats.streak_days >= 1]_vars

\* C6 witness: a workout recorded after a gap of two days, for a user who
\* already had a streak
C6_Witness ==
    /\ last.op = "add_workout"
    /\ last.raised = ""
    /\ Len(history[last.user].days) >= 2
    /\ \E i \in 1 .. Len(history[last.user].days) - 1 :
          history[last.user].days[i + 1] - history[last.user].days[i] >= 2
    /\ users[last.user].stats.streak_days >= 1

\* C7: the record at position k of the workout log has id k, and a call of
\* add_workout that returns returns the position of the record it appended.
C7_IdIsPosition ==
    /\ \A k \in 1 .. Len(workouts) : workouts[k].id = k
    /\ (last.op = "add_workout" /\ last.raised = "") => last.ret = Len(workouts)

\* C8: the record appended by a call add_workout(username, workout_data) that
\* returns carries the time of the call as its date and the username argument
\* as its owner, whatever workout_data holds.
C8_StampAndOwnerFromCall ==
    [][(Called("add_workout") /\ last'.raised = "")
         => LET w == workouts'[Len(workouts')]
            IN /\ Len(workouts') = Len(workouts) + 1
               /\ w.date = isoformat(now)
               /\ w.username = last'.user]_vars

\* Positions of the log whose record belongs to u and is dated at or after
\* the cutoff
InWindow(u, cutoff) ==
    {i \in 1 .. Len(workouts) :
        workouts[i].username = u /\ fromisoformat(workouts[i].date) >= cutoff}

\* The j-th smallest member of a set of positions
Nth(I, j) == CHOOSE i \in I : Cardinality({k \in I : k < i}) = j - 1

\* C9: get_user_workouts(username, days) returns, in storage order, exactly
\* the records of username dated at or after now - days: one result per
\* position in the window and no other.
C9_QueryExactWindow ==
    last.op = "get_user_workouts"
        => LET I == InWindow(last.user, now - timedelta(last.days))
           IN /\ Len(last.ret) = Cardinality(I)
              /\ \A j \in 1 .. Len(last.ret) : last.ret[j] = workouts[Nth(I, j)]

\* C9 witness: a query that returned a record dated exactly at the cutoff and
\* left out an older record of the same user
C9_Witness ==
    /\ last.op = "get_user_workouts"
    /\ last.user \in DOMAIN users
    /\ last.days >= 1
    /\ \E j \in 1 .. Len(last.ret) :
          fromisoformat(last.ret[j].date) = now - timedelta(last.days)
    /\ \E i \in 1 .. Len(workouts) :
          /\ workouts[i].username = last.user
          /\ fromisoformat(workouts[i].date) < now - timedelta(last.days)

\* Sum of f over a finite set of positions
RECURSIVE SumOver(_, _)
SumOver(I, f) ==
    IF I = {} THEN 0
    ELSE LET i == CHOOSE x \in I : TRUE IN f[i] + SumOver(I \ {i}, f)

\* The window of a report type, in days
WindowDays(report_type) == IF report_type = "weekly" THEN 7 ELSE 30

\* C10: generate_report returns None exactly when the user has no record in
\* the last 7 days (30 for 'monthly'); otherwise total_workouts is the number
\* of records in the window, total_calories the sum of their calories (0 for
\* a record without), and the counts per type add up to total_workouts.
C10_ReportTotals ==
    last.op = "generate_report"
        => LET I == InWindow(last.user, now - WindowDays(last.report_type) * TicksPerDay)
               cal == [i \in I |-> IF "calories" \in DOMAIN workouts[i]
                                   THEN workouts[i].calories ELSE 0]
               r == last.ret
           IN /\ r.none <=> I = {}
              /\ ~r.none =>
                    /\ r.total_workouts = Cardinality(I)
                    /\ r.total_calories = SumOver(I, cal)
                    /\ SumOver(DOMAIN r.workout_types, r.workout_types)
                          = r.total_workouts

\* C10 witness: a weekly report over two records of the user, one of them
\* without calories and type
C10_Witness ==
    /\ last.op = "generate_report"
    /\ last.user \in DOMAIN users
    /\ last.report_type = "weekly"
    /\ ~last.ret.none
    /\ last.ret.total_workouts = 2
    /\ last.ret.total_calories = 300
    /\ DOMAIN last.ret.workout_types = {"Running", "Other"}

\* The call before this step wrote all four files (save_data returned True)
JustSaved == "saved" \in DOMAIN last /\ last.saved

\* C11: when the process is started again right after a call whose save_data
\* returned True, load_all_data yields the same users, the same workout
\* records (ids and fields) and the same challenges as were in memory; the
\* notifications are in no file, and every start begins with none.
C11_SaveLoadRoundTrip ==
    [][Called("restart") =>
          /\ notifications' = << >>
          /\ JustSaved => /\ users' = users
                          /\ workouts' = workouts
                          /\ nutrition' = nutrition
                          /\ challenges' = challenges]_vars

\* C11 witness: a start that found in the files a user with a workout, the
\* record of that workout and a challenge the user joined, exactly as the last
\* save_data wrote them, and no notification
C11_Witness ==
    /\ last.op = "restart"
    /\ last.unreadable = {}
    /\ "alice" \in DOMAIN users
    /\ users["alice"].stats.total_workouts = 1
    /\ Len(workouts) = 1
    /\ In("alice", challenges[1].participants)
    /\ Len(users["alice"].challenges) = 1
    /\ \A f \in FileNames : "content" \in DOMAIN disk[f]
    /\ disk.users.content = users
    /\ disk.workouts.content = workouts
    /\ disk.challenges.content = challenges
    /\ notifications = << >>

\* The challenges of a first run: the three seeded ones, nobody in them
SeededNames == <<"10K Steps Challenge", "Hydration Hero", "Workout Warrior">>
FirstRun(cs) ==
    /\ Len(cs) = 3
    /\ \A i \in 1 .. 3 : /\ cs[i].id = i
                         /\ cs[i].name = SeededNames[i]
                         /\ cs[i].participants = << >>

\* C12: on the first run (no challenges file) the store holds exactly the
\* challenges 1, 2, 3 named "10K Steps Challenge", "Hydration Hero" and
\* "Workout Warrior" with no participants; when alice, who has no membership
\* yet, joins challenge 1 in that state, the participants of challenge 1
\* become ["alice"], alice's own list holds exactly one entry, for challenge 1
\* with progress 0, and challenges 2 and 3 stay as they were.
C12_SeededChallengesAndFirstJoin ==
    /\ FirstRun(challenges)
    /\ [][/\ Called("restart") /\ ~disk.challenges.exists => FirstRun(challenges')
          /\ /\ Called("join_challenge")
             /\ last'.challenge = 1
             /\ current_user = "alice"
             /\ FirstRun(challenges)
             /\ users["alice"].challenges = << >>
             => /\ challenges'[1].participants = <<"alice">>
                /\ Len(users'["alice"].challenges) = 1
                /\ users'["alice"].challenges[1].id = 1
                /\ users'["alice"].challenges[1].progress = 0
                /\ Len(challenges') = 3
                /\ challenges'[2] = challenges[2]
                /\ challenges'[3] = challenges[3]]_vars

\* C12 witness: alice has joined challenge 1 of the seeded three and nothing
\* else
C12_Witness ==
    /\ last.op = "join_challenge"
    /\ last.challenge = 1
    /\ last.user = "alice"
    /\ last.joined
    /\ challenges[1].participants = <<"alice">>
    /\ challenges[2] = get_default_challenges[2]
    /\ challenges[3] = get_default_challenges[3]
    /\ Len(users["alice"].challenges) = 1
    /\ users["alice"].challenges[1].id = 1

\* No value occurs twice in the list
NoDuplicates(list) ==
    \A j, k \in 1 .. Len(list) : list[j] = list[k] => j = k

\* C13: join_challenge is idempotent on the participants: no username is ever
\* twice in the participants of a challenge, and a join by a user who is a
\* participant already leaves the participants of every challenge unchanged.
C13_JoinIdempotentOnParticipants ==
    /\ [](\A i \in 1 .. Len(challenges) : NoDuplicates(challenges[i].participants))
    /\ [][/\ Called("join_challenge")
          /\ In(current_user, challenges[last'.challenge].participants)
          => challenges' = challenges]_vars

\* C13 witness: a user who is a participant of the challenge joined it again
\* and is in its participants once
C13_Witness ==
    /\ last.op = "join_challenge"
    /\ ~last.joined
    /\ last.raised = ""
    /\ In(last.user, challenges[last.challenge].participants)
    /\ NoDuplicates(challenges[last.challenge].participants)
    /\ Len(users[last.user].challenges) >= 1

\* The entries of user u's own list for the challenge with this id
EntriesFor(u, id) ==
    {k \in 1 .. Len(users[u].challenges) : users[u].challenges[k].id = id}

\* C14: a join by a user who is not in the participants of the challenge
\* appends the entry (challenge id, join time, progress 0) to the user's own
\* list, whether or not that list holds an entry for the challenge already;
\* so a user can end with two entries for the same challenge.
C14_MembershipAppendedUnchecked ==
    [][/\ Called("join_challenge")
       /\ current_user \in DOMAIN users
       /\ ~In(current_user, challenges[last'.challenge].participants)
       => users'[current_user].challenges =
             Append(users[current_user].challenges,
                    [id |-> challenges[last'.challenge].id,
                     joined_at |-> isoformat(now), progress |-> 0])]_vars

\* C14 witness: after a second join the user's own list holds two entries for
\* the same challenge
C14_Witness ==
    /\ last.op = "join_challenge"
    /\ last.joined
    /\ Cardinality(EntriesFor(last.user, challenges[last.challenge].id)) = 2
    /\ challenges[last.challenge].participants = <<last.user>>

\* The step is a call that reached save_data
SavingStep ==
    \/ Called("add_user") /\ last'.ret
    \/ Called("verify_user") /\ last'.ret
    \/ Called("add_workout") /\ last'.raised = ""
    \/ Called("join_challenge") /\ last'.joined
    \/ Called("save_challenge") /\ last'.created
    \/ Called("delete_account") /\ last'.raised = ""

\* The record of self.data that belongs in file f
Record(f, u, w, n, c) ==
    [users |-> u, workouts |-> w, nutrition |-> n, challenges |-> c][f]

\* C15: save_data writes users, workouts, nutrition, challenges in that
\* order.  When the k-th write fails it returns False and raises nothing: the
\* files before the k-th hold the new records (no rollback), the files after
\* it are as they were, the k-th holds no new record.  It returns True only
\* when all four files hold the new records.
C15_SaveOrderNoRollback ==
    [][SavingStep =>
          LET k == IF broken = NoFault THEN 0 ELSE FileIndex(broken.file)
          IN /\ last'.saved = (k = 0)
             /\ last'.saved =>
                   \A f \in FileNames :
                      disk'[f] = File(Record(f, users', workouts', nutrition',
                                             challenges'))
             /\ \A f \in FileNames :
                   /\ (k # 0 /\ FileIndex(f) < k) =>
                         disk'[f] = File(Record(f, users', workouts', nutrition',
                                                challenges'))
                   /\ (k # 0 /\ FileIndex(f) > k) => disk'[f] = disk[f]
                   /\ (k # 0 /\ FileIndex(f) = k) => disk'[f] \in {disk[f], Truncated}
             /\ "raised" \in DOMAIN last' => last'.raised = ""]_vars

\* C15 witness: a join whose save_data failed at the second file: the users
\* file holds the new membership, the challenges file does not hold the new
\* participant, and save_data returned False
C15_Witness ==
    /\ last.op = "join_challenge"
    /\ last.joined
    /\ ~last.saved
    /\ broken.file = "workouts"
    /\ disk.users = File(users)
    /\ disk.challenges # File(challenges)
    /\ disk.challenges.exists

\* The value load_all_data takes for a record whose file is absent or fails
\* to load
DefaultRecord(f) ==
    IF f = "challenges" THEN get_default_challenges ELSE << >>

\* File f is there, can be opened and holds a pickled object
Readable(f) ==
    /\ disk[f].exists
    /\ disk[f] # Truncated
    /\ broken # [file |-> f, how |-> "open"]

\* C16: load_all_data handles each record on its own: a file that cannot be
\* read gives only its own record the default (users {}, workouts [],
\* nutrition [], challenges the seeded three), every file that can be read is
\* loaded exactly, and the start goes through whatever fails.
C16_LoadPerRecordDefaults ==
    [][Called("restart") =>
          /\ \A f \in FileNames :
                Record(f, users', workouts', nutrition', challenges') =
                   IF Readable(f) THEN disk[f].content ELSE DefaultRecord(f)
          /\ last'.unreadable = {f \in FileNames : disk[f].exists /\ ~Readable(f)}
          /\ DOMAIN last' = {"op", "unreadable"}]_vars

\* C16 witness: a start at which only the workouts file could not be read:
\* the log is empty, the user with her workout count and the challenge with
\* its participant are loaded
C16_Witness ==
    /\ last.op = "restart"
    /\ last.unreadable = {"workouts"}
    /\ workouts = << >>
    /\ "alice" \in DOMAIN users
    /\ users["alice"].stats.total_workouts = 1
    /\ challenges[1].participants = <<"alice">>
    /\ disk.users = File(users)
    /\ disk.challenges = File(challenges)

\* C17: delete_account removes exactly the record of the user who deletes:
\* the records of the other users, every record of the workout log and the
\* participants of every challenge are as they were.
C17_DeleteRemovesOnlyUserRecord ==
    [][Called("delete_account") /\ last'.raised = "" =>
          /\ DOMAIN users' = DOMAIN users \ {current_user}
          /\ current_user \in DOMAIN users
          /\ \A u \in DOMAIN users' : users'[u] = users[u]
          /\ workouts' = workouts
          /\ nutrition' = nutrition
          /\ Len(challenges') = Len(challenges)
          /\ \A i \in 1 .. Len(challenges) :
                challenges'[i].participants = challenges[i].participants]_vars

\* C17 witness: the account of a user with workouts in the log and a challenge
\* joined was deleted while another user was registered; the workouts and the
\* participation are still there
C17_Witness ==
    /\ last.op = "delete_account"
    /\ last.raised = ""
    /\ last.user \notin DOMAIN users
    /\ DOMAIN users # {}
    /\ \E i \in 1 .. Len(workouts) : workouts[i].username = last.user
    /\ In(last.user, challenges[1].participants)

\* Every required field of the form is filled in
Filled(form) ==
    /\ form.name # ""
    /\ form.description # ""
    /\ form.metric # ""
    /\ form.goal # ""
    /\ form.duration # ""
    /\ form.reward # ""

\* C18: a save_challenge that succeeds appends exactly one challenge, with
\* id = number of challenges before + 1, different from every id in the list,
\* and the creator as its only participant; it succeeds when every field is
\* filled in and goal and duration are integers other than 0.  When a
\* required field (name, description, metric, goal, duration, reward) is
\* empty or goal is not an integer, it fails: the list of challenges is
\* unchanged and nothing is written.
C18_CreateAppendsOrFails ==
    [][Called("save_challenge") =>
          LET form == last'.form
              n == Len(challenges)
          IN /\ last'.created =>
                   /\ Len(challenges') = n + 1
                   /\ SubSeq(challenges', 1, n) = challenges
                   /\ challenges'[n + 1].id = n + 1
                   /\ \A i \in 1 .. n : challenges[i].id # challenges'[n + 1].id
                   /\ challenges'[n + 1].participants = <<current_user>>
             /\ (~Filled(form) \/ form.goal \notin {"0", "7", "50"}) =>
                   /\ ~last'.created
                   /\ challenges' = challenges
                   /\ disk' = disk
             /\ (Filled(form) /\ form.goal \in {"7", "50"}
                              /\ form.duration \in {"7", "50"}) =>
                   last'.created]_vars

\* C18 witness: the second challenge created got id 5 and its creator as the
\* only participant
C18_Witness ==
    /\ last.op = "save_challenge"
    /\ last.created
    /\ Len(challenges) = 5
    /\ challenges[5].id = 5
    /\ challenges[4].id = 4
    /\ challenges[5].participants = <<"alice">>
    /\ disk.challenges = File(challenges)

\* C19: every expected validation failure comes back as a value: add_user on
\* a taken username returns False, and save_challenge on a form with an empty
\* required field or a non-numeric goal ends with its error message; none of
\* them ends with an exception.
C19_ValidationFailuresAreValues ==
    [][/\ Called("add_user") /\ last'.user \in DOMAIN users => last'.ret = FALSE
       /\ /\ Called("save_challenge")
          /\ (~Filled(last'.form) \/ last'.form.goal \notin {"0", "7", "50"})
          => /\ last'.raised = ""
             /\ last'.error = "Please fill all fields"]_vars

\* The call reached save_data, and save_data returned False
FlushFailed == "saved" \in DOMAIN last' /\ ~last'.saved

\* C20: when a write fails in the save_data of add_user, verify_user or
\* add_workout, nothing is raised and the caller gets a failure: add_user and
\* verify_user return False and add_workout returns no workout id; no call
\* reports success for a change that is not in the files.
C20_FailedFlushReported ==
    [][/\ Called("add_user") /\ FlushFailed =>
             last'.ret = FALSE
       /\ Called("verify_user") /\ FlushFailed =>
             last'.ret = FALSE
       /\ Called("add_workout") /\ FlushFailed =>
             last'.raised = "" /\ "ret" \notin DOMAIN last']_vars

\* load_all_data on the files gives the records that are in memory
InSync ==
    load_all_data = [users |-> users, workouts |-> workouts,
                     nutrition |-> nutrition, challenges |-> challenges]

\* The step is a call that returned (it raised nothing)
Returned == "raised" \in DOMAIN last' => last'.raised = ""

\* C21: while no write fails, when add_user, a successful verify_user,
\* add_workout, join_challenge, save_challenge, save_settings or
\* delete_account returns, load_all_data on the files gives the users,
\* workouts and challenges that are in memory; and no call at all returns
\* having changed the records in memory without the files being in step.
C21_WriteThrough ==
    [][broken = NoFault =>
          /\ (SavingStep \/ Called("save_settings")) => InSync'
          /\ (Returned /\ Aggregate' # Aggregate) => InSync']_vars

\* C21 witness: the settings were saved after a workout and a new challenge,
\* and the files hold all of it
C21_Witness ==
    /\ last.op = "save_settings"
    /\ broken = NoFault
    /\ users[last.user].settings.units = "imperial"
    /\ users[last.user].stats.total_workouts >= 1
    /\ Len(workouts) >= 1
    /\ Len(challenges) = 4
    /\ disk.users = File(users)
    /\ disk.workouts = File(workouts)
    /\ disk.challenges = File(challenges)

\* C22: the workout log is append-only and its records never change: a call
\* of add_workout leaves every record that was in the log as it was and adds
\* exactly one record at the end; every other operation (add_user,
\* verify_user, delete_account, join_challenge, save_challenge,
\* save_settings, the queries, the edit and delete stubs, the background
\* thread) leaves the log unchanged.
C22_LogAppendOnly ==
    [][IF Called("add_workout")
       THEN /\ Len(workouts') = Len(workouts) + 1
            /\ SubSeq(workouts', 1, Len(workouts)) = workouts
       ELSE workouts' = workouts]_vars

\* C22 witness: delete_workout was called on a row of a log of two records,
\* and both are still there
C22_Witness ==
    /\ last.op = "delete_workout"
    /\ Len(workouts) = 2
    /\ workouts[1].id = 1
    /\ workouts[2].id = 2
    /\ disk.workouts = File(workouts)

\* The fields of a user record that add_workout has no business with
Untouched(u) ==
    /\ users'[u].password = users[u].password
    /\ users'[u].profile = users[u].profile
    /\ users'[u].settings = users[u].settings
    /\ users'[u].created_at = users[u].created_at
    /\ users'[u].last_login = users[u].last_login
    /\ users'[u].achievements = users[u].achievements
    /\ users'[u].challenges = users[u].challenges
    /\ users'[u].stats.total_steps = users[u].stats.total_steps

\* C23: add_workout(u, workout_data) for a registered u adds 1 to u's
\* total_workouts and the calories of workout_data (0 when it has none) to
\* u's total_calories, sets u's last_workout to the time of the call and
\* runs update_streak once (the streak goes up by 1 or back to 1); it changes
\* no other user's record, no settings, profile or password hash, and no
\* challenge.
C23_WorkoutStatsFrame ==
    [][Called("add_workout") /\ last'.user \in DOMAIN users =>
          LET u == last'.user
              old == users[u].stats
              new == users'[u].stats
          IN /\ last'.raised = ""
             /\ new.total_workouts = old.total_workouts + 1
             /\ new.total_calories =
                   old.total_calories + Get(last'.data, "calories", 0)
             /\ new.last_workout = isoformat(now)
             /\ new.streak_days \in {old.streak_days + 1, 1}
             /\ Untouched(u)
             /\ DOMAIN users' = DOMAIN users
             /\ \A v \in DOMAIN users \ {u} : users'[v] = users[v]
             /\ challenges' = challenges]_vars

\* C23 witness: a second workout of a user, without calories, while another
\* user is registered: the count is 2 and the calories are those of the first
C23_Witness ==
    /\ last.op = "add_workout"
    /\ last.raised = ""
    /\ "calories" \notin DOMAIN last.data
    /\ users[last.user].stats.total_workouts = 2
    /\ users[last.user].stats.total_calories = 300
    /\ users[last.user].stats.last_workout = isoformat(now)
    /\ \E v \in DOMAIN users : v # last.user

\* Every add_workout of user u that returned since u registered was on the
\* calendar day d
AllOnDay(days, d) == \A i \in 1 .. Len(days) : days[i] = d

\* C24: workouts of one user on one calendar day are not merged: an
\* add_workout on the day of the user's previous workout adds 1 to
\* streak_days, and after k workouts, all on one day, of a user registered
\* with no workout the streak is k.
C24_SameDayWorkoutsEachCount ==
    [][Called("add_workout") /\ last'.raised = "" =>
          LET u == last'.user
              before == users[u].stats
          IN /\ (before.last_workout # None
                   /\ date(fromisoformat(before.last_workout)) = date(now))
                => users'[u].stats.streak_days = before.streak_days + 1
             /\ AllOnDay(history'[u].days, date(now))
                => users'[u].stats.streak_days = Len(history'[u].days)]_vars

\* C24 witness: three workouts on one day, with time passing between them,
\* gave a streak of 3
C24_Witness ==
    /\ last.op = "add_workout"
    /\ last.raised = ""
    /\ Len(history[last.user].days) = 3
    /\ AllOnDay(history[last.user].days, date(now))
    /\ users[last.user].stats.streak_days = 3
    /\ \E i \in 1 .. Len(workouts) :
          fromisoformat(workouts[i].date) < now

\* Notification n is one that get_user_notifications(user, unread_only) is
\* to return
Wanted(n, user, unread_only) == n.user = user /\ (unread_only => ~n.read)

\* C25: get_user_notifications(user, unread_only) returns exactly the
\* notifications of that user (with unread_only, those of them that are not
\* read), each once, newest first by timestamp; it returns no notification
\* of another user and leaves the notification centre as it was.
C25_ListForUser ==
    [][Called("get_user_notifications") =>
          LET ret == last'.ret
              user == last'.user
              unread_only == last'.unread_only
          IN /\ \A j \in 1 .. Len(ret) :
                   /\ In(ret[j], notifications)
                   /\ Wanted(ret[j], user, unread_only)
             /\ \A k \in 1 .. Len(notifications) :
                   Wanted(notifications[k], user, unread_only) =>
                      Cardinality({j \in 1 .. Len(ret) :
                                      ret[j] = notifications[k]}) = 1
             /\ \A i, j \in 1 .. Len(ret) :
                   i < j => fromisoformat(ret[i].timestamp)
                               >= fromisoformat(ret[j].timestamp)
             /\ notifications' = notifications]_vars

\* C25 witness: a user with an older read notification and a newer unread one
\* asked for all of them and got the newer one first
C25_Witness ==
    /\ last.op = "get_user_notifications"
    /\ ~last.unread_only
    /\ Len(last.ret) = 2
    /\ last.ret[1] = notifications[2]
    /\ last.ret[2] = notifications[1]
    /\ fromisoformat(last.ret[1].timestamp) > fromisoformat(last.ret[2].timestamp)
    /\ last.ret[2].read
    /\ ~last.ret[1].read

\* The notifications other than the one with this id are as they were
OthersKept(notification_id) ==
    /\ Len(notifications') = Len(notifications)
    /\ \A k \in 1 .. Len(notifications) :
          IF notifications[k].id = notification_id
          THEN notifications'[k] = [notifications[k] EXCEPT !.read = TRUE]
          ELSE notifications'[k] = notifications[k]

\* C26: the notifications of a process have the ids 1, 2, 3, ... in the
\* order they were added, so no two have the same id; mark_as_read(id) sets
\* the read flag of the notification with that id and changes nothing else,
\* and nothing at all when no notification has the id; and a notification
\* that is read stays read whatever is called.
C26_FreshIdsAndMarkRead ==
    /\ [](\A k \in 1 .. Len(notifications) : notifications[k].id = k)
    /\ [][/\ Called("mark_as_read") =>
                /\ OthersKept(last'.id)
                /\ UNCHANGED <<Aggregate, disk, current_user>>
          /\ \A k \in 1 .. Len(notifications) :
                notifications[k].read =>
                   /\ k <= Len(notifications')
                   /\ notifications'[k].id = notifications[k].id
                   /\ notifications'[k].read]_vars

\* C26 witness: the second of two notifications was marked as read and the
\* first is still unread
C26_Witness ==
    /\ last.op = "mark_as_read"
    /\ last.id = 2
    /\ Len(notifications) = 2
    /\ notifications[2].id = 2
    /\ notifications[2].read
    /\ ~notifications[1].read

\* C27: a wake-up of the background thread reads and writes nothing: at
\* whatever point between two foreground operations it comes, the records in
\* memory, the notifications, the files and the logged-in user are after it
\* what they were before it, so a run with wake-ups goes through the same
\* records and files as the run of its foreground operations alone.
C27_BackgroundTaskTouchesNothing ==
    [][Called("check_reminders") =>
          UNCHANGED <<Aggregate, notifications, disk, current_user, now,
                      broken, history>>]_vars

\* C27 witness: the thread woke up while a user with a workout and a
\* notification was logged in
C27_Witness ==
    /\ last.op = "check_reminders"
    /\ current_user \in DOMAIN users
    /\ Len(workouts) >= 1
    /\ Len(notifications) >= 1
    /\ disk.users = File(users)
    /\ disk.challenges = File(challenges)

\* The positions of the log records that carry username u
OwnedBy(u) == {i \in 1 .. Len(workouts) : workouts[i].username = u}

HasMembership(u, id) ==
    \E k \in 1 .. Len(users[u].challenges) : users[u].challenges[k].id = id

\* C29: for every registered user u and every challenge c, u is in the
\* participants of c exactly when u's own list holds an entry for the id of c.
C29_ParticipantIffMember ==
    \A u \in DOMAIN users :
        \A i \in 1 .. Len(challenges) :
            In(u, challenges[i].participants)
                <=> HasMembership(u, challenges[i].id)

\* C30: add_workout with a username that is not registered fails and leaves
\* the log in memory, every user's stats and the files as they were, so that
\* the ids of the log go on with the number of records + 1.
C30_UnknownUserChangesNothing ==
    [][Called("add_workout") /\ last'.user \notin DOMAIN users =>
          /\ last'.raised # ""
          /\ workouts' = workouts
          /\ users' = users
          /\ disk' = disk]_vars

====
